---------------------------- MODULE Spec2Model ----------------------------
(***************************************************************************)
(* SkinGuide mobile client: the session / consent / scan / label flow of   *)
(* apps/mobile (App, ConsentScreen, CameraScreen, ReviewScreen,            *)
(* ResultsScreen, LabelScreen, SettingsScreen and the API client).         *)
(*                                                                         *)
(* One action per event handler or promise continuation.  A handler runs   *)
(* to its first await atomically; the continuation after the await is a    *)
(* separate action that fires when the call in flight completes.  React    *)
(* component state (the busy flags, the severities) lives and dies with    *)
(* the component instance: when a screen is unmounted its state is reset   *)
(* and the calls it issued become stale (live = FALSE), so that their      *)
(* setBusy is a no-op while their props callbacks still reach App.         *)
(*                                                                         *)
(* Numbers 0.33 / 0.66 / 1.0 are kept exactly, in hundredths.              *)
(***************************************************************************)
EXTENDS Integers, Sequences, FiniteSets, Bags, TLC

(* ------------------------------ bounds --------------------------------- *)
\* calls of one kind that may be in flight at once (the code has no limit)
MaxInFlight == 2
\* how many of the eight attributes have their chips pressed in SpecLabel
\* (SpecEncode presses all eight)
MaxTouched == 1

(* ------------------------------ values --------------------------------- *)
\* JavaScript null / undefined of a string-valued field
NULL == "<null>"
\* JavaScript truthiness of a string | null value
Truthy(x) == x # NULL /\ x # ""

\* Screen
Screens == {"consent", "camera", "review", "results", "settings", "label"}
\* session ids the service hands out
SessionIds == {"s1", "s2"}
\* uris the camera collaborator produces
PhotoUris == {"p1"}
\* roi_sha256 of an AnalysisResult: absent, empty, or a content id
RoiValues == {NULL, "", "abc", "def"}
\* result === null
NoResult == [null |-> TRUE]
\* the AnalysisResult fields the controller reads
AnalysisResult(roi) == [roi_sha256 |-> roi]
\* Consent
Flags == {"store_progress_images", "donate_for_improvement"}
ConsentValues == [Flags -> BOOLEAN]
\* defaultState
defaultState == [sessionId |-> NULL, consent |-> [f \in Flags |-> FALSE]]

\* ATTRS, in source order
ATTRS ==
    << "uneven_tone_appearance", "hyperpigmentation_appearance",
       "redness_appearance", "texture_roughness_appearance",
       "shine_oiliness_appearance", "pore_visibility_appearance",
       "fine_lines_appearance", "dryness_flaking_appearance" >>
AttributeKey == {ATTRS[i] : i \in 1..Len(ATTRS)}
Severity == {"none", "mild", "moderate", "severe"}
\* the attributes whose chips are pressed in SpecLabel
TouchedAttrs == {ATTRS[i] : i \in 1..MaxTouched}
\* useState initialiser of sev
initSev == [a \in AttributeKey |-> "none"]

\* Alert.alert(title, message)
Alert(title, detail) == [title |-> title, detail |-> detail]
NoAlert == Alert(NULL, NULL)
\* no LabelSubmission has been sent
NoSubmission == [null |-> TRUE]

\* Auth
AccessTokens == {NULL, "", "t1", "t2"}
DeviceTokens == {"d1", "d2"}
Auths ==
    [sessionId : SessionIds, accessToken : AccessTokens,
     deviceToken : DeviceTokens]
\* the screens of this client hold no Auth
NoAuth == [sessionId |-> NULL, accessToken |-> NULL, deviceToken |-> NULL]
\* no authenticated call has been made
NoRequest == [null |-> TRUE]

VARIABLES
    sessionId,      \* st.sessionId
    consent,        \* st.consent
    screen,         \* App: screen
    photoUri,       \* App: photoUri
    result,         \* App: result
    effectPending,  \* App: the useEffect is scheduled (mount, or deps changed)
    sessionCall,    \* createSession: "idle" | "pending" | "failed"
    createCalls,    \* number of createSession calls issued in this run
    camBusy,        \* CameraScreen: busy
    camCalls,       \* takePictureAsync calls in flight
    revBusy,        \* ReviewScreen: busy
    analyzeCalls,   \* analyze calls in flight
    labBusy,        \* LabelScreen: busy
    sev,            \* LabelScreen: sev
    labelCalls,     \* labelSample calls in flight
    setBusy,        \* SettingsScreen: busy
    deleteCalls,    \* deleteProgress calls in flight
    consentCalls,   \* upsertConsent calls in flight
    serverConsent,  \* the Consent the service last applied
    alert,          \* the last alert shown
    labelSent,      \* the body of the last POST /v1/label sent
    hadRoi,         \* history: some stored AnalysisResult carried a roi_sha256
    auth,           \* api: the Auth handed to the authenticated calls
    request         \* api: the last request an authenticated call has sent

vars ==
    << sessionId, consent, screen, photoUri, result, effectPending,
       sessionCall, createCalls, camBusy, camCalls, revBusy, analyzeCalls,
       labBusy, sev, labelCalls, setBusy, deleteCalls, consentCalls,
       serverConsent, alert, labelSent, hadRoi, auth, request >>

appVars == << screen, photoUri, result, hadRoi >>
compVars ==
    << camBusy, camCalls, revBusy, analyzeCalls, labBusy, sev, labelCalls,
       setBusy, deleteCalls >>
sessVars == << sessionId, effectPending, sessionCall, createCalls >>
apiVars == << auth, request >>
consVars == << consent, consentCalls, serverConsent >>


(* ------------------------------ App render ------------------------------ *)
\* const roiSha = result?.roi_sha256 ?? null
RoiSha(r) == IF r = NoResult THEN NULL ELSE r.roi_sha256
roiSha == RoiSha(result)

\* mutant: the screens rendered without the loading gate on st.sessionId
Mounted_noGate(name, sid, s, p, r) ==
    /\ s = name
    /\ (name = "review" => Truthy(p))
    /\ (name = "results" => r # NoResult)
    /\ (name = "label" => Truthy(RoiSha(r)))

\* which screen component App renders for (sessionId, screen, photoUri, result)
Mounted(name, sid, s, p, r) ==
    /\ Truthy(sid)
    /\ s = name
    /\ (name = "review" => Truthy(p))
    /\ (name = "results" => r # NoResult)
    /\ (name = "label" => Truthy(RoiSha(r)))
Shown(name) == Mounted(name, sessionId, screen, photoUri, result)

\* the pending effect is flushed before the next event is handled
Idle == Truthy(sessionId) /\ ~effectPending

\* the calls of an unmounted component instance: setBusy no longer reaches it
Stale(B) ==
    LET S == {[c EXCEPT !.live = FALSE] : c \in BagToSet(B)}
    IN  [x \in S |-> CopiesIn(x, B) + CopiesIn([x EXCEPT !.live = TRUE], B)]

\* component state and calls in flight, as a handler leaves them
Comp ==
    [ camBusy |-> camBusy, camCalls |-> camCalls,
      revBusy |-> revBusy, analyzeCalls |-> analyzeCalls,
      labBusy |-> labBusy, sev |-> sev, labelCalls |-> labelCalls,
      setBusy |-> setBusy, deleteCalls |-> deleteCalls ]

\* App re-renders with (s, p, r): a component that is rendered before and
\* after keeps its instance; any other loses its state, and its calls go stale
Render(s, p, r, c) ==
    LET keeps(name) == Shown(name) /\ Mounted(name, sessionId, s, p, r)
    IN  /\ screen' = s
        /\ photoUri' = p
        /\ result' = r
        /\ hadRoi' = (hadRoi \/ Truthy(RoiSha(r)))
        /\ camBusy' = (keeps("camera") /\ c.camBusy)
        /\ camCalls' = IF keeps("camera") THEN c.camCalls ELSE Stale(c.camCalls)
        /\ revBusy' = (keeps("review") /\ c.revBusy)
        /\ analyzeCalls' =
              IF keeps("review") THEN c.analyzeCalls ELSE Stale(c.analyzeCalls)
        /\ labBusy' = (keeps("label") /\ c.labBusy)
        /\ sev' = IF keeps("label") THEN c.sev ELSE initSev
        /\ labelCalls' =
              IF keeps("label") THEN c.labelCalls ELSE Stale(c.labelCalls)
        /\ setBusy' = (keeps("settings") /\ c.setBusy)
        /\ deleteCalls' =
              IF keeps("settings") THEN c.deleteCalls ELSE Stale(c.deleteCalls)

\* setScreen(s)
setScreen(s) == Render(s, photoUri, result, Comp)

(* ------------------------------ Init ------------------------------------ *)
Init ==
    /\ sessionId = defaultState.sessionId
    /\ consent = defaultState.consent
    /\ screen = "consent"
    /\ photoUri = NULL
    /\ result = NoResult
    /\ effectPending = TRUE
    /\ sessionCall = "idle"
    /\ createCalls = 0
    /\ camBusy = FALSE
    /\ camCalls = EmptyBag
    /\ revBusy = FALSE
    /\ analyzeCalls = EmptyBag
    /\ labBusy = FALSE
    /\ sev = initSev
    /\ labelCalls = EmptyBag
    /\ setBusy = FALSE
    /\ deleteCalls = EmptyBag
    /\ consentCalls = EmptyBag
    /\ serverConsent = [f \in Flags |-> FALSE]
    /\ alert = NoAlert
    /\ labelSent = NoSubmission
    /\ hadRoi = FALSE
    /\ auth = NoAuth
    /\ request = NoRequest

(* ------------------------------ session bootstrap ----------------------- *)
\* mutant: the effect without its if (!st.sessionId) guard
EffectRun_noGuard ==
    /\ effectPending
    /\ effectPending' = FALSE
    /\ sessionCall' = "pending"
    /\ createCalls' = createCalls + 1
    /\ UNCHANGED << sessionId, appVars, compVars, consVars, alert, labelSent,
                    apiVars >>

\* useEffect(() => { if (!st.sessionId) createSession(...) }, [.., st.sessionId])
EffectRun ==
    /\ effectPending
    /\ effectPending' = FALSE
    /\ IF ~Truthy(sessionId)
          THEN /\ sessionCall' = "pending"
               /\ createCalls' = createCalls + 1
          ELSE UNCHANGED << sessionCall, createCalls >>
    /\ UNCHANGED << sessionId, appVars, compVars, consVars, alert, labelSent,
                    apiVars >>

\* createSession resolves: setSt((p) => ({...p, sessionId: s.session_id}));
\* the effect is scheduled again when the dependency st.sessionId changed
CreateSessionOk(id) ==
    /\ sessionCall = "pending"
    /\ sessionCall' = "idle"
    /\ sessionId' = id
    /\ effectPending' = (id # sessionId)
    /\ UNCHANGED << createCalls, appVars, compVars, consVars, alert, labelSent,
                    apiVars >>

\* createSession throws on !r.ok: the async effect body rejects, nothing is set
CreateSessionFail ==
    /\ sessionCall = "pending"
    /\ sessionCall' = "failed"
    /\ UNCHANGED << sessionId, effectPending, createCalls, appVars, compVars,
                    consVars, alert, labelSent, apiVars >>

(* ------------------------------ navigation ------------------------------ *)
\* header: onPress={() => setScreen("settings")}
SettingsPressed ==
    /\ Idle
    /\ setScreen("settings")
    /\ UNCHANGED << sessVars, apiVars, consVars, alert, labelSent >>

\* ConsentScreen: onContinue={() => setScreen("camera")}
Continue ==
    /\ Idle
    /\ Shown("consent")
    /\ setScreen("camera")
    /\ UNCHANGED << sessVars, apiVars, consVars, alert, labelSent >>

\* mutant: leaving Settings starts over, dropping the scan
SettingsBack_clears ==
    /\ Idle
    /\ Shown("settings")
    /\ Render("consent", NULL, NoResult, Comp)
    /\ UNCHANGED << sessVars, apiVars, consVars, alert, labelSent >>

\* SettingsScreen: onBack={() => setScreen("consent")}
SettingsBack ==
    /\ Idle
    /\ Shown("settings")
    /\ setScreen("consent")
    /\ UNCHANGED << sessVars, apiVars, consVars, alert, labelSent >>

(* ------------------------------ calls in flight ------------------------- *)
One(c) == SetToBag({c})
\* a further call of this kind fits the model's bound
Fits(B) == BagCardinality(B) < MaxInFlight
\* setBusy(false) of the continuation of call c: reaches only a live instance
Release(c, busy) == IF c.live THEN FALSE ELSE busy

(* ------------------------------ CameraScreen ---------------------------- *)
\* snap: if (busy) return; setBusy(true); await takePictureAsync(...)
snap ==
    /\ Idle
    /\ Shown("camera")
    /\ ~camBusy
    /\ Fits(camCalls)
    /\ Render(screen, photoUri, result,
              [Comp EXCEPT !.camBusy = TRUE,
                           !.camCalls = @ (+) One([live |-> TRUE])])
    /\ UNCHANGED << sessVars, apiVars, consVars, alert, labelSent >>

\* mutant: snap hands over whatever takePictureAsync returned
snapResolved_noUriCheck(c, uri) ==
    /\ c \in BagToSet(camCalls)
    /\ Render("review", uri, result,
              [Comp EXCEPT !.camBusy = Release(c, @),
                           !.camCalls = @ (-) One(c)])
    /\ UNCHANGED << sessVars, apiVars, consVars, alert, labelSent >>

\* snap resumes: setBusy(false); if (photo?.uri) props.onCaptured(photo.uri)
\* onCaptured: setPhotoUri(uri); setScreen("review")
snapResolved(c, uri) ==
    /\ c \in BagToSet(camCalls)
    /\ LET done == [Comp EXCEPT !.camBusy = Release(c, @),
                                !.camCalls = @ (-) One(c)]
       IN  IF Truthy(uri)
              THEN Render("review", uri, result, done)
              ELSE Render(screen, photoUri, result, done)
    /\ UNCHANGED << sessVars, apiVars, consVars, alert, labelSent >>

\* takePictureAsync rejects: snap has no try/finally, busy is left as it is
snapRejected(c) ==
    /\ c \in BagToSet(camCalls)
    /\ Render(screen, photoUri, result, [Comp EXCEPT !.camCalls = @ (-) One(c)])
    /\ UNCHANGED << sessVars, apiVars, consVars, alert, labelSent >>

(* ------------------------------ ReviewScreen ---------------------------- *)
\* onBack={() => setScreen("camera")}
Retake ==
    /\ Idle
    /\ Shown("review")
    /\ setScreen("camera")
    /\ UNCHANGED << sessVars, apiVars, consVars, alert, labelSent >>

\* run: setBusy(true); await centerCropToJpeg(photoUri); await analyze(...)
\* (the Analyze button is not disabled while busy)
run ==
    /\ Idle
    /\ Shown("review")
    /\ Fits(analyzeCalls)
    /\ Render(screen, photoUri, result,
              [Comp EXCEPT !.revBusy = TRUE,
                           !.analyzeCalls =
                               @ (+) One([photo |-> photoUri, live |-> TRUE])])
    /\ UNCHANGED << sessVars, apiVars, consVars, alert, labelSent >>

\* analyze resolves: props.onResult(r); finally setBusy(false)
\* onResult: setResult(r); setScreen("results")
runResolved(c, roi) ==
    /\ c \in BagToSet(analyzeCalls)
    /\ Render("results", photoUri, AnalysisResult(roi),
              [Comp EXCEPT !.revBusy = Release(c, @),
                           !.analyzeCalls = @ (-) One(c)])
    /\ UNCHANGED << sessVars, apiVars, consVars, alert, labelSent >>

\* mutant: a failed analyze gives up the photo and returns to the camera
runRejected_toCamera(c) ==
    /\ c \in BagToSet(analyzeCalls)
    /\ Render("camera", NULL, result,
              [Comp EXCEPT !.revBusy = Release(c, @),
                           !.analyzeCalls = @ (-) One(c)])
    /\ UNCHANGED << sessVars, apiVars, consVars, alert, labelSent >>

\* analyze throws on !r.ok: finally setBusy(false); run has no catch
runRejected(c) ==
    /\ c \in BagToSet(analyzeCalls)
    /\ Render(screen, photoUri, result,
              [Comp EXCEPT !.revBusy = Release(c, @),
                           !.analyzeCalls = @ (-) One(c)])
    /\ UNCHANGED << sessVars, apiVars, consVars, alert, labelSent >>

(* ------------------------------ ResultsScreen --------------------------- *)
\* mutant: canLabel={roiSha !== null}, an empty id passes
canLabel_nonNull == roiSha # NULL
\* mutant: canLabel remembered from an earlier scan
canLabel_cached == hadRoi
\* canLabel={!!roiSha}
canLabel == Truthy(roiSha)

\* mutant: onNewScan that forgets setResult(null)
onNewScan_keepsResult ==
    /\ Idle
    /\ Shown("results")
    /\ Render("camera", NULL, result, Comp)
    /\ UNCHANGED << sessVars, apiVars, consVars, alert, labelSent >>

\* onNewScan: setResult(null); setPhotoUri(null); setScreen("camera")
onNewScan ==
    /\ Idle
    /\ Shown("results")
    /\ Render("camera", NULL, NoResult, Comp)
    /\ UNCHANGED << sessVars, apiVars, consVars, alert, labelSent >>

\* mutant: the Label press without its disabled={!canLabel}
onLabelScan_unguarded ==
    /\ Idle
    /\ Shown("results")
    /\ setScreen("label")
    /\ UNCHANGED << sessVars, apiVars, consVars, alert, labelSent >>

\* "Label scan": disabled={!props.canLabel}; onLabelScan: setScreen("label")
onLabelScan ==
    /\ Idle
    /\ Shown("results")
    /\ canLabel
    /\ setScreen("label")
    /\ UNCHANGED << sessVars, apiVars, consVars, alert, labelSent >>

(* ------------------------------ LabelScreen ----------------------------- *)
\* sevToValue returns null
NoValue == -1

\* mutant: the quantisation rounded to one decimal
sevToValue_rounded(s) ==
    IF s = "none" THEN NoValue
    ELSE IF s = "mild" THEN 30
    ELSE IF s = "moderate" THEN 70
    ELSE 100

\* sevToValue, in hundredths
sevToValue(s) ==
    IF s = "none" THEN NoValue
    ELSE IF s = "mild" THEN 33
    ELSE IF s = "moderate" THEN 66
    ELSE 100

\* out[k] = v
Put(out, k, v) == [x \in DOMAIN out \cup {k} |-> IF x = k THEN v ELSE out[x]]
\* const out: Record<string, number> = {}
EmptyLabels == [x \in {} |-> 0]

\* for (const a of ATTRS) { const v = sevToValue(sev[a.key]);
\*                          if (v !== null) out[a.key] = v; }
RECURSIVE SparseFrom(_, _, _)
SparseFrom(i, sv, out) ==
    IF i > Len(ATTRS) THEN out
    ELSE LET v == sevToValue(sv[ATTRS[i]])
         IN  SparseFrom(i + 1, sv,
                        IF v # NoValue THEN Put(out, ATTRS[i], v) ELSE out)

\* mutant: a dense mapping, "none" stored as zero
SparseLabels_dense(sv) ==
    [a \in AttributeKey |->
        IF sevToValue(sv[a]) = NoValue THEN 0 ELSE sevToValue(sv[a])]

\* the useMemo over [sev]
SparseLabels(sv) == SparseFrom(1, sv, EmptyLabels)
sparseLabels == SparseLabels(sev)

\* Chip onPress: setSev((p) => ({ ...p, [a.key]: s }))
setSev(a, s) ==
    /\ Idle
    /\ Shown("label")
    /\ Render(screen, photoUri, result, [Comp EXCEPT !.sev[a] = s])
    /\ UNCHANGED << sessVars, apiVars, consVars, alert, labelSent >>

\* mutant: Back on Label that starts a new scan, dropping the result
LabelBack_clears ==
    /\ Idle
    /\ Shown("label")
    /\ Render("results", photoUri, NoResult, Comp)
    /\ UNCHANGED << sessVars, apiVars, consVars, alert, labelSent >>

\* onBack={() => setScreen("results")}
LabelBack ==
    /\ Idle
    /\ Shown("label")
    /\ setScreen("results")
    /\ UNCHANGED << sessVars, apiVars, consVars, alert, labelSent >>

\* mutant: submit without the check for an empty mapping
submit_noEmptyCheck ==
    /\ Idle
    /\ Shown("label")
    /\ ~labBusy
    /\ Truthy(roiSha)
    /\ Fits(labelCalls)
    /\ labelSent' = [roi_sha256 |-> roiSha, labels |-> SparseFrom(1, sev, EmptyLabels)]
    /\ Render(screen, photoUri, result,
              [Comp EXCEPT !.labBusy = TRUE,
                           !.labelCalls = @ (+) One([live |-> TRUE])])
    /\ UNCHANGED << alert, sessVars, apiVars, consVars >>

\* mutant: submit sends a remembered roi id instead of the current roiSha
submit_rememberedRoi ==
    /\ Idle
    /\ Shown("label")
    /\ ~labBusy
    /\ DOMAIN sparseLabels # {}
    /\ Fits(labelCalls)
    /\ labelSent' = [roi_sha256 |-> "abc", labels |-> sparseLabels]
    /\ Render(screen, photoUri, result,
              [Comp EXCEPT !.labBusy = TRUE,
                           !.labelCalls = @ (+) One([live |-> TRUE])])
    /\ UNCHANGED << alert, sessVars, apiVars, consVars >>

\* submit (the button is disabled while busy); props.roiSha256 is App's roiSha
submit ==
    /\ Idle
    /\ Shown("label")
    /\ ~labBusy
    /\ IF ~Truthy(roiSha)
          THEN /\ alert' = Alert("Missing ROI id", "Run a scan first")
               /\ UNCHANGED << appVars, compVars, labelSent >>
          ELSE IF DOMAIN sparseLabels = {}
          THEN /\ alert' = Alert("Nothing selected", "Pick at least one")
               /\ UNCHANGED << appVars, compVars, labelSent >>
          ELSE /\ Fits(labelCalls)
               /\ labelSent' = [roi_sha256 |-> roiSha, labels |-> sparseLabels]
               /\ Render(screen, photoUri, result,
                         [Comp EXCEPT !.labBusy = TRUE,
                                      !.labelCalls = @ (+) One([live |-> TRUE])])
               /\ UNCHANGED alert
    /\ UNCHANGED << sessVars, apiVars, consVars >>

\* what POST /v1/label answers with a success status
LabelResponses ==
    { [stored |-> TRUE, reason |-> NULL],
      [stored |-> FALSE, reason |-> "not_donated"],
      [stored |-> FALSE, reason |-> NULL] }

\* mutant: a declined label is submitted again by the handler itself
submitResolved_retry(c, resp) ==
    /\ c \in BagToSet(labelCalls)
    /\ IF resp.stored
          THEN /\ alert' = Alert("Thanks!", "Label saved")
               /\ Render("results", photoUri, result,
                         [Comp EXCEPT !.labBusy = Release(c, @),
                                      !.labelCalls = @ (-) One(c)])
          ELSE /\ alert' = Alert("Not saved",
                                 IF resp.reason = NULL THEN "unknown"
                                                       ELSE resp.reason)
               /\ Render(screen, photoUri, result, Comp)
    /\ UNCHANGED << sessVars, apiVars, consVars, labelSent >>

\* labelSample resolves: if (resp?.stored) { alert; props.onDone() }
\* else alert(`Reason: ${resp?.reason ?? "unknown"}`); finally setBusy(false)
submitResolved(c, resp) ==
    /\ c \in BagToSet(labelCalls)
    /\ LET done == [Comp EXCEPT !.labBusy = Release(c, @),
                                !.labelCalls = @ (-) One(c)]
       IN  IF resp.stored
              THEN /\ alert' = Alert("Thanks!", "Label saved")
                   /\ Render("results", photoUri, result, done)
              ELSE /\ alert' = Alert("Not saved",
                                     IF resp.reason = NULL THEN "unknown"
                                                           ELSE resp.reason)
                   /\ Render(screen, photoUri, result, done)
    /\ UNCHANGED << sessVars, apiVars, consVars, labelSent >>

\* labelSample throws on !r.ok: catch alerts the message; finally setBusy(false)
submitRejected(c) ==
    /\ c \in BagToSet(labelCalls)
    /\ alert' = Alert("Error", "response body")
    /\ Render(screen, photoUri, result,
              [Comp EXCEPT !.labBusy = Release(c, @),
                           !.labelCalls = @ (-) One(c)])
    /\ UNCHANGED << sessVars, apiVars, consVars, labelSent >>

(* ------------------------------ SettingsScreen -------------------------- *)
\* wipe: setBusy(true); await deleteProgress(...) (the button is never disabled)
wipe ==
    /\ Idle
    /\ Shown("settings")
    /\ Fits(deleteCalls)
    /\ Render(screen, photoUri, result,
              [Comp EXCEPT !.setBusy = TRUE,
                           !.deleteCalls = @ (+) One([live |-> TRUE])])
    /\ UNCHANGED << sessVars, apiVars, consVars, alert, labelSent >>

\* deleteProgress resolves: alert("Deleted ..."); finally setBusy(false)
wipeResolved(c) ==
    /\ c \in BagToSet(deleteCalls)
    /\ alert' = Alert("Deleted", "Deleted stored progress (if any).")
    /\ Render(screen, photoUri, result,
              [Comp EXCEPT !.setBusy = Release(c, @),
                           !.deleteCalls = @ (-) One(c)])
    /\ UNCHANGED << sessVars, apiVars, consVars, labelSent >>

\* deleteProgress throws on !r.ok: finally setBusy(false); wipe has no catch
wipeRejected(c) ==
    /\ c \in BagToSet(deleteCalls)
    /\ Render(screen, photoUri, result,
              [Comp EXCEPT !.setBusy = Release(c, @),
                           !.deleteCalls = @ (-) One(c)])
    /\ UNCHANGED << sessVars, apiVars, consVars, alert, labelSent >>

(* ------------------------------ ConsentScreen --------------------------- *)
\* save(next): props.onChangeConsent(next); await upsertConsent(.., next)
\* onChangeConsent: setSt((p) => ({ ...p, consent }))
save(next) ==
    /\ consent' = next
    /\ consentCalls' = consentCalls (+) One([body |-> next])
    /\ UNCHANGED serverConsent

\* mutant: next built from the defaults instead of the current consent
onValueChange_fromDefaults(f, v) ==
    /\ Idle
    /\ Shown("consent")
    /\ Fits(consentCalls)
    /\ save([defaultState.consent EXCEPT ![f] = v])
    /\ UNCHANGED << sessVars, apiVars, appVars, compVars, alert, labelSent >>

\* Switch onValueChange={(v) => save({ ...consent, [flag]: v })}
onValueChange(f, v) ==
    /\ Idle
    /\ Shown("consent")
    /\ Fits(consentCalls)
    /\ save([consent EXCEPT ![f] = v])
    /\ UNCHANGED << sessVars, apiVars, appVars, compVars, alert, labelSent >>

\* POST /v1/consent answered with a success status: the service has applied
\* the body; save's await returns and nothing follows it
saveResolved(c) ==
    /\ c \in BagToSet(consentCalls)
    /\ consentCalls' = consentCalls (-) One(c)
    /\ serverConsent' = c.body
    /\ UNCHANGED << consent, sessVars, apiVars, appVars, compVars, alert, labelSent >>

\* mutant: a failed upsert rolls the local consent back to the defaults
saveRejected_rollback(c) ==
    /\ c \in BagToSet(consentCalls)
    /\ consentCalls' = consentCalls (-) One(c)
    /\ consent' = defaultState.consent
    /\ UNCHANGED << serverConsent, sessVars, apiVars, appVars, compVars, alert, labelSent >>

\* upsertConsent throws on !r.ok: save has no catch, nothing is undone
saveRejected(c) ==
    /\ c \in BagToSet(consentCalls)
    /\ consentCalls' = consentCalls (-) One(c)
    /\ UNCHANGED << consent, serverConsent, sessVars, apiVars, appVars, compVars,
                    alert, labelSent >>

(* ------------------------------ process restart ------------------------ *)
\* the app is relaunched: App mounts again with useState(defaultState),
\* screen "consent", photoUri null, result null; calls in flight die with the
\* process; what the service has stored stays
Restart ==
    /\ sessionId' = NULL
    /\ consent' = defaultState.consent
    /\ screen' = "consent"
    /\ photoUri' = NULL
    /\ result' = NoResult
    /\ effectPending' = TRUE
    /\ sessionCall' = "idle"
    /\ createCalls' = 0
    /\ camBusy' = FALSE
    /\ camCalls' = EmptyBag
    /\ revBusy' = FALSE
    /\ analyzeCalls' = EmptyBag
    /\ labBusy' = FALSE
    /\ sev' = initSev
    /\ labelCalls' = EmptyBag
    /\ setBusy' = FALSE
    /\ deleteCalls' = EmptyBag
    /\ consentCalls' = EmptyBag
    /\ alert' = NoAlert
    /\ UNCHANGED << serverConsent, labelSent, hadRoi, apiVars >>

(* ------------------------------ API client ------------------------------ *)
\* mutant: the Authorization header added for every access token but null
authHeaders_nonNull(a) ==
    LET h == [x \in {"X-Device-Token"} |-> a.deviceToken]
    IN  IF a.accessToken # NULL
           THEN Put(h, "Authorization", "Bearer " \o a.accessToken)
           ELSE h

\* authHeaders: X-Device-Token always, Authorization if (auth.accessToken)
authHeaders(a) ==
    LET h == [x \in {"X-Device-Token"} |-> a.deviceToken]
    IN  IF Truthy(a.accessToken)
           THEN Put(h, "Authorization", "Bearer " \o a.accessToken)
           ELSE h

\* { "Content-Type": "application/json", ...authHeaders(auth) }
jsonHeaders(a) ==
    LET h == authHeaders(a)
    IN  [x \in {"Content-Type"} \cup DOMAIN h |->
            IF x \in DOMAIN h THEN h[x] ELSE "application/json"]

\* fetch(url + "?session_id=" + auth.sessionId, { method: "POST", headers, body })
fetch(url, a, headers, body) ==
    /\ request' = [url |-> url, session_id |-> a.sessionId,
                   headers |-> headers, body |-> body]
    /\ UNCHANGED << auth, sessVars, appVars, compVars, consVars, alert,
                    labelSent >>

\* upsertConsent(apiBaseUrl, auth, consent)
upsertConsent(a, c) ==
    fetch("/v1/consent", a, jsonHeaders(a), [consent |-> c])

\* analyze(apiBaseUrl, auth, jpegUri)
analyze(a, jpegUri) ==
    fetch("/v1/analyze", a, authHeaders(a), [image |-> jpegUri])

\* labelSample(apiBaseUrl, auth, payload)
labelSample(a, payload) ==
    fetch("/v1/label", a, jsonHeaders(a), payload)

\* payloads handed to labelSample
LabelPayloads ==
    { [roi_sha256 |-> roi,
       labels |-> SparseLabels([initSev EXCEPT ![ATTRS[1]] = s])] :
         roi \in {"abc", "def"}, s \in {"mild", "severe"} }

(* ------------------------------ specifications -------------------------- *)
Bootstrap ==
    \/ EffectRun
    \/ \E id \in SessionIds : CreateSessionOk(id)
    \/ CreateSessionFail

Navigation ==
    \/ SettingsPressed
    \/ Continue
    \/ SettingsBack

Capture ==
    \/ snap
    \/ \E c \in BagToSet(camCalls), uri \in PhotoUris \cup {NULL} :
          snapResolved(c, uri)
    \/ \E c \in BagToSet(camCalls) : snapRejected(c)

Analyze ==
    \/ run
    \/ \E c \in BagToSet(analyzeCalls), roi \in RoiValues : runResolved(c, roi)
    \/ \E c \in BagToSet(analyzeCalls) : runRejected(c)

Labelling ==
    \/ \E a \in TouchedAttrs, s \in Severity : setSev(a, s)
    \/ submit
    \/ \E c \in BagToSet(labelCalls), resp \in LabelResponses :
          submitResolved(c, resp)
    \/ \E c \in BagToSet(labelCalls) : submitRejected(c)

Wipe ==
    \/ wipe
    \/ \E c \in BagToSet(deleteCalls) : wipeResolved(c)
    \/ \E c \in BagToSet(deleteCalls) : wipeRejected(c)

ConsentSync ==
    \/ \E f \in Flags, v \in BOOLEAN : onValueChange(f, v)
    \/ \E c \in BagToSet(consentCalls) : saveResolved(c)
    \/ \E c \in BagToSet(consentCalls) : saveRejected(c)

\* the scan flow of one run: bootstrap, every screen transition, capture and
\* analysis with their late completions
Next ==
    \/ Bootstrap
    \/ Navigation
    \/ Capture
    \/ Retake
    \/ Analyze
    \/ onNewScan
    \/ onLabelScan
    \/ LabelBack
Spec == Init /\ [][Next]_vars

\* labelling one analysed scan: bootstrap, one pass consent -> camera ->
\* review -> results, the Label screen with its submissions, and leaving it
\* by Back or by the Settings header while a submission is in flight
NextLabel ==
    \/ Bootstrap
    \/ Continue
    \/ SettingsPressed
    \/ Capture
    \/ Analyze
    \/ onLabelScan
    \/ LabelBack
    \/ Labelling
SpecLabel == Init /\ [][NextLabel]_vars

\* the Label screen as it is mounted for a scan with a roi_sha256
InitEncode ==
    /\ sessionId = "s1"
    /\ consent = defaultState.consent
    /\ screen = "label"
    /\ photoUri = "p1"
    /\ result = AnalysisResult("abc")
    /\ effectPending = FALSE
    /\ sessionCall = "idle"
    /\ createCalls = 1
    /\ camBusy = FALSE
    /\ camCalls = EmptyBag
    /\ revBusy = FALSE
    /\ analyzeCalls = EmptyBag
    /\ labBusy = FALSE
    /\ sev = initSev
    /\ labelCalls = EmptyBag
    /\ setBusy = FALSE
    /\ deleteCalls = EmptyBag
    /\ consentCalls = EmptyBag
    /\ serverConsent = [f \in Flags |-> FALSE]
    /\ alert = NoAlert
    /\ labelSent = NoSubmission
    /\ hadRoi = TRUE
    /\ auth = NoAuth
    /\ request = NoRequest

\* the label encoder: any sequence of chip presses over all eight attributes
NextEncode == \E a \in AttributeKey, s \in Severity : setSev(a, s)
SpecEncode == InitEncode /\ [][NextEncode]_vars

\* consent over several runs: bootstrap, the Consent screen's switches and
\* their upserts, the screens reachable without a capture, and a relaunch
NextConsent ==
    \/ Bootstrap
    \/ Navigation
    \/ ConsentSync
    \/ Restart
SpecConsent == Init /\ [][NextConsent]_vars

\* every kind of call that reports failure to a screen: one pass to Results,
\* the Label screen with its submissions, and Settings with its deletions
NextCalls ==
    \/ NextLabel
    \/ Wipe
SpecCalls == Init /\ [][NextCalls]_vars

\* consent in a run where the service accepts every request: bootstrap, the
\* switches (each press flips the value shown), and upserts that succeed in
\* any order
NextConsentOk ==
    \/ Bootstrap
    \/ Navigation
    \/ \E f \in Flags : onValueChange(f, ~consent[f])
    \/ \E c \in BagToSet(consentCalls) : saveResolved(c)
SpecConsentOk == Init /\ [][NextConsentOk]_vars

\* labelling over several scans: the labelling flow together with New scan
NextRescan ==
    \/ NextLabel
    \/ onNewScan
SpecRescan == Init /\ [][NextRescan]_vars

\* the API client called with any Auth: the three authenticated calls
InitApi ==
    /\ sessionId = defaultState.sessionId
    /\ consent = defaultState.consent
    /\ screen = "consent"
    /\ photoUri = NULL
    /\ result = NoResult
    /\ effectPending = TRUE
    /\ sessionCall = "idle"
    /\ createCalls = 0
    /\ camBusy = FALSE
    /\ camCalls = EmptyBag
    /\ revBusy = FALSE
    /\ analyzeCalls = EmptyBag
    /\ labBusy = FALSE
    /\ sev = initSev
    /\ labelCalls = EmptyBag
    /\ setBusy = FALSE
    /\ deleteCalls = EmptyBag
    /\ consentCalls = EmptyBag
    /\ serverConsent = [f \in Flags |-> FALSE]
    /\ alert = NoAlert
    /\ labelSent = NoSubmission
    /\ hadRoi = FALSE
    /\ auth \in Auths
    /\ request = NoRequest
NextApi ==
    \/ \E c \in ConsentValues : upsertConsent(auth, c)
    \/ \E uri \in PhotoUris : analyze(auth, uri)
    \/ \E payload \in LabelPayloads : labelSample(auth, payload)
SpecApi == InitApi /\ [][NextApi]_vars

(* ------------------------------ properties ------------------------------ *)
\* C1: on the Results screen the label press leads to the Label screen if and
\* only if the AnalysisResult currently held has a non-null, non-empty
\* roi_sha256; without one the press is disabled, and the controller is never
\* on the Label screen without one.
C1_LabelIffRoi ==
    /\ Shown("results") =>
          (ENABLED (onLabelScan /\ screen' = "label") <=> Truthy(roiSha))
    /\ screen = "label" => Truthy(roiSha)
\* the Label screen has been entered from Results
C1_Witness == Shown("label") /\ Idle /\ ENABLED LabelBack

\* C2: the guard is computed from the current result, not remembered: when an
\* earlier result carried a roi_sha256 and the result now shown on Results
\* carries none, the label press is disabled.
C2_GuardNotCached ==
    (hadRoi /\ Shown("results") /\ ~Truthy(roiSha)) => ~ENABLED onLabelScan
\* Results shows a result without roi_sha256 after a result that had one
C2_Witness == hadRoi /\ Shown("results") /\ ~Truthy(roiSha) /\ ~canLabel

\* a step that issues a labelSample call
IssuedLabel == BagCardinality(labelCalls') > BagCardinality(labelCalls)
\* submit is pressed while the roi id is missing or nothing is selected
RejectedLabel == submit /\ (~Truthy(roiSha) \/ DOMAIN sparseLabels = {})

\* C3: every step that issues a labelSample call is taken with a non-empty
\* roi id and a non-empty encoded mapping and sends exactly these; a submit
\* with the roi id missing or with every attribute "none" issues no call,
\* sends nothing, and leaves the screen Label with busy false.
C3_SubmitGuard ==
    [][ /\ IssuedLabel =>
             /\ Truthy(roiSha)
             /\ DOMAIN sparseLabels # {}
             /\ labelSent' = [roi_sha256 |-> roiSha, labels |-> sparseLabels]
             /\ BagCardinality(labelCalls') = BagCardinality(labelCalls) + 1
        /\ RejectedLabel =>
             /\ labelCalls' = labelCalls
             /\ labelSent' = labelSent
             /\ screen' = "label"
             /\ labBusy' = FALSE
             /\ alert'.title \in {"Missing ROI id", "Nothing selected"}
      ]_vars
\* a submit with nothing selected has been rejected before any call was sent
C3_Witness ==
    /\ alert.title = "Nothing selected"
    /\ Shown("label")
    /\ labelSent = NoSubmission
    /\ labelCalls = EmptyBag
    /\ ~labBusy

\* C4: for every attribute, "none" leaves the attribute out of the encoded
\* mapping, "mild" gives 0.33, "moderate" 0.66, "severe" 1.0 (in hundredths),
\* and the mapping holds no other number.
C4_Quantisation ==
    /\ \A a \in AttributeKey :
          /\ sev[a] = "none" => a \notin DOMAIN sparseLabels
          /\ sev[a] = "mild" =>
                (a \in DOMAIN sparseLabels /\ sparseLabels[a] = 33)
          /\ sev[a] = "moderate" =>
                (a \in DOMAIN sparseLabels /\ sparseLabels[a] = 66)
          /\ sev[a] = "severe" =>
                (a \in DOMAIN sparseLabels /\ sparseLabels[a] = 100)
    /\ \A k \in DOMAIN sparseLabels : sparseLabels[k] \in {33, 66, 100}
\* the four severities encoded side by side
C4_Witness ==
    /\ sev[ATTRS[1]] = "none"
    /\ sev[ATTRS[2]] = "mild"
    /\ sev[ATTRS[3]] = "moderate"
    /\ sev[ATTRS[4]] = "severe"
    /\ DOMAIN sparseLabels = {ATTRS[2], ATTRS[3], ATTRS[4]}

\* C5: after any sequence of severity changes over the eight attributes the
\* keys of the encoded mapping are exactly the attributes whose severity is
\* not "none".
C5_SparseKeys ==
    DOMAIN sparseLabels = {a \in AttributeKey : sev[a] # "none"}
\* only the last attribute is marked, the seven before it are "none"
C5_Witness ==
    /\ sev[ATTRS[8]] # "none"
    /\ \A i \in 1..7 : sev[ATTRS[i]] = "none"
    /\ DOMAIN sparseLabels = {ATTRS[8]}

\* C6: when labelSample answers stored:false the screen does not change (a
\* shown Label screen stays shown), the reason (or "unknown") is alerted, the
\* answered call leaves and no call is added, and nothing is sent; when it
\* answers stored:true the screen becomes Results.
C6_NotStoredStays ==
    [][ \A c \in BagToSet(labelCalls), resp \in LabelResponses :
          submitResolved(c, resp) =>
             IF resp.stored
                THEN screen' = "results"
                ELSE /\ screen' = screen
                     /\ Shown("label") => Shown("label")'
                     /\ alert'.title = "Not saved"
                     /\ alert'.detail \in {resp.reason, "unknown"}
                     /\ labelCalls' = labelCalls (-) One(c)
                     /\ labelSent' = labelSent
      ]_vars
\* a label was sent and declined; the Label screen is still shown, idle
C6_Witness ==
    /\ alert.title = "Not saved"
    /\ Shown("label")
    /\ labelSent # NoSubmission
    /\ labelCalls = EmptyBag
    /\ ~labBusy

\* a step that issues upsertConsent calls
ToggleStep == BagCardinality(consentCalls') > BagCardinality(consentCalls)

\* C7: every step that issues an upsertConsent call issues exactly one, for
\* one flag: the other flag keeps its local value, and the body of the call
\* is the new local Consent with both flags.
C7_ToggleFrame ==
    [][ /\ ToggleStep =>
             /\ \E f \in Flags : \A g \in Flags \ {f} : consent'[g] = consent[g]
             /\ consent' \in ConsentValues
             /\ consentCalls' = consentCalls (+) One([body |-> consent'])
        /\ \A f \in Flags, v \in BOOLEAN :
             onValueChange(f, v) =>
                (ToggleStep /\ consent' = [consent EXCEPT ![f] = v])
      ]_vars
\* both flags have been switched on, one after the other
C7_Witness ==
    /\ \A f \in Flags : consent[f]
    /\ BagCardinality(consentCalls) = 2
    /\ \E f \in Flags :
          [body |-> [consent EXCEPT ![f] = FALSE]] \in BagToSet(consentCalls)

\* C8: when an upsertConsent call fails the local Consent, the screen and
\* what the service holds stay as they are.
C8_NoRollback ==
    [][ \A c \in BagToSet(consentCalls) :
          saveRejected(c) =>
             /\ consent' = consent
             /\ screen' = screen
             /\ serverConsent' = serverConsent
      ]_vars
\* the only upsert has ended and the service never applied it: the switched
\* flag is still on locally
C8_Witness ==
    /\ Shown("consent")
    /\ consentCalls = EmptyBag
    /\ consent # defaultState.consent
    /\ serverConsent = defaultState.consent

\* C9: whenever a createSession completes and the session id becomes held,
\* the local Consent equals the Consent the service last applied.
C9_RoundTrip ==
    [][ (~Truthy(sessionId) /\ Truthy(sessionId')) =>
           consent' = serverConsent' ]_vars

\* C10: once a session id is held it never changes and no createSession call
\* is issued any more; a createSession that succeeds is the first call of the
\* run and finds no session id held.
C10_BootstrapIdempotent ==
    [][ /\ Truthy(sessionId) =>
             (sessionId' = sessionId /\ createCalls' = createCalls)
        /\ (sessionCall = "pending" /\ sessionCall' = "idle") =>
             (~Truthy(sessionId) /\ createCalls = 1)
      ]_vars
\* the effect has run again with the session id held and issued nothing
C10_Witness ==
    /\ Truthy(sessionId)
    /\ ~effectPending
    /\ sessionCall = "idle"
    /\ createCalls = 1

\* C11: while no session id is held (createSession not started, pending or
\* failed) no screen is rendered, no upsertConsent, analyze, labelSample or
\* deleteProgress call is in flight, and no handler of any screen can run.
C11_LoadingGate ==
    ~Truthy(sessionId) =>
       /\ \A n \in Screens : ~Shown(n)
       /\ consentCalls = EmptyBag
       /\ analyzeCalls = EmptyBag
       /\ labelCalls = EmptyBag
       /\ deleteCalls = EmptyBag
       /\ camCalls = EmptyBag
       /\ ~ENABLED (Navigation \/ Capture \/ Retake \/ Analyze \/ onNewScan
                    \/ onLabelScan \/ LabelBack \/ Labelling \/ Wipe
                    \/ ConsentSync)
\* createSession has failed: no session id, the loading view stays
C11_Witness ==
    /\ sessionCall = "failed"
    /\ ~Truthy(sessionId)
    /\ createCalls = 1
    /\ \A n \in Screens : ~Shown(n)

\* C12: after a createSession failure, while no session id is held, a further
\* createSession attempt can be made: some step of the run issues one.
C12_RetryAfterFailure ==
    (sessionCall = "failed" /\ ~Truthy(sessionId)) =>
       ENABLED (Next /\ createCalls' = createCalls + 1)

\* C13: when analyze succeeds for the photo under review, the screen becomes
\* Results, the returned AnalysisResult becomes the current result, and no
\* photo reference is held afterwards.
C13_AnalyzeDiscardsPhoto ==
    [][ \A c \in BagToSet(analyzeCalls), roi \in RoiValues :
          (Shown("review") /\ c.live /\ c.photo = photoUri
             /\ runResolved(c, roi)) =>
             /\ screen' = "results"
             /\ result' = AnalysisResult(roi)
             /\ photoUri' = NULL
      ]_vars

\* C14: pressing Retake on Review moves to the camera screen and leaves no
\* photo reference held.
C14_RetakeDiscardsPhoto ==
    [][ Retake => (screen' = "camera" /\ photoUri' = NULL) ]_vars

\* C15: pressing New scan on Results moves to the camera screen and leaves
\* neither an AnalysisResult (hence no roi_sha256) nor a photo reference held.
C15_NewScanClears ==
    [][ onNewScan =>
          /\ Shown("results")
          /\ screen' = "camera"
          /\ result' = NoResult
          /\ photoUri' = NULL
          /\ roiSha' = NULL
      ]_vars
\* a scan with a roi_sha256 was shown and New scan has cleared it
C15_Witness ==
    /\ Shown("camera")
    /\ hadRoi
    /\ result = NoResult
    /\ photoUri = NULL
    /\ analyzeCalls = EmptyBag

\* the data a screen change must not touch
Held == << photoUri, result, consent, sessionId >>

C17_LateResponseDiscarded ==
    [][ /\ \A c \in BagToSet(analyzeCalls), roi \in RoiValues :
             (~c.live /\ runResolved(c, roi)) =>
                (screen' = screen /\ result' = result)
        /\ \A c \in BagToSet(labelCalls), resp \in LabelResponses :
             (~c.live /\ submitResolved(c, resp)) =>
                (screen' = screen /\ result' = result)
      ]_vars

\* C18: for each of analyze, label submit, consent sync, delete-progress and
\* session bootstrap at most one call is in flight, and while an analyze call
\* is in flight the Analyze press issues nothing.
C18_OneInFlight ==
    /\ BagCardinality(analyzeCalls) <= 1
    /\ BagCardinality(labelCalls) <= 1
    /\ BagCardinality(consentCalls) <= 1
    /\ BagCardinality(deleteCalls) <= 1
    /\ createCalls <= 1
    /\ analyzeCalls # EmptyBag => ~ENABLED run

\* C19: no busy flag stays set without a pending operation of its screen:
\* whenever the capture, analyze, label or delete busy flag is true, a call of
\* that screen is in flight.
C19_BusyReleased ==
    /\ camBusy => camCalls # EmptyBag
    /\ revBusy => analyzeCalls # EmptyBag
    /\ labBusy => labelCalls # EmptyBag
    /\ setBusy => deleteCalls # EmptyBag

\* C20: when an analyze, labelSample or deleteProgress call fails, the screen,
\* the held photo and the held AnalysisResult stay as they are; the screen
\* that issued the call, if still shown, stays shown.
C20_FailureStays ==
    [][ /\ \A c \in BagToSet(analyzeCalls) :
             runRejected(c) =>
                /\ << screen, photoUri, result >>' = << screen, photoUri, result >>
                /\ c.live => (Shown("review") /\ Shown("review")')
        /\ \A c \in BagToSet(labelCalls) :
             submitRejected(c) =>
                /\ << screen, photoUri, result >>' = << screen, photoUri, result >>
                /\ c.live => (Shown("label") /\ Shown("label")')
        /\ \A c \in BagToSet(deleteCalls) :
             wipeRejected(c) =>
                /\ << screen, photoUri, result >>' = << screen, photoUri, result >>
                /\ c.live => (Shown("settings") /\ Shown("settings")')
      ]_vars
\* a label submission has failed on the Label screen, which is shown, idle
C20_Witness ==
    /\ alert.title = "Error"
    /\ Shown("label")
    /\ labelSent # NoSubmission
    /\ labelCalls = EmptyBag
    /\ ~labBusy

\* C21: every failure of a network call ends in a message to the user: the
\* step in which createSession, analyze, upsertConsent, labelSample or
\* deleteProgress fails shows an error alert.
C21_FailuresSurfaced ==
    [][ /\ CreateSessionFail => alert'.title = "Error"
        /\ \A c \in BagToSet(analyzeCalls) :
             runRejected(c) => alert'.title = "Error"
        /\ \A c \in BagToSet(consentCalls) :
             saveRejected(c) => alert'.title = "Error"
        /\ \A c \in BagToSet(labelCalls) :
             submitRejected(c) => alert'.title = "Error"
        /\ \A c \in BagToSet(deleteCalls) :
             wipeRejected(c) => alert'.title = "Error"
      ]_vars

\* C23: a labelSample call is issued only while an AnalysisResult is held
\* (analyze has succeeded), and the roi_sha256 it sends is the one of the
\* result held at that moment, which the step leaves in place.
C23_LabelAfterAnalyze ==
    [][ IssuedLabel =>
          /\ result # NoResult
          /\ hadRoi
          /\ labelSent'.roi_sha256 = result.roi_sha256
          /\ result' = result
      ]_vars
\* a label for the result now held is in flight, all analyze calls answered
C23_Witness ==
    /\ Shown("label")
    /\ labBusy
    /\ labelCalls # EmptyBag
    /\ labelSent # NoSubmission
    /\ labelSent.roi_sha256 = roiSha
    /\ analyzeCalls = EmptyBag

\* C24: in a run where every upsertConsent succeeds, whenever no upsertConsent
\* call is in flight the Consent the service last applied equals the local
\* Consent.
C24_ConsentPersisted ==
    (Truthy(sessionId) /\ consentCalls = EmptyBag) => serverConsent = consent

\* C25: leaving the shown Label screen by Back, or by the stored:true answer
\* to its own submission, shows Results with the AnalysisResult unchanged, and
\* the label press is possible again for the same roi_sha256.
C25_LabelReturn ==
    [][ /\ LabelBack =>
             /\ Shown("results")'
             /\ result' = result
             /\ (ENABLED onLabelScan)'
        /\ \A c \in BagToSet(labelCalls), resp \in LabelResponses :
             (c.live /\ resp.stored /\ submitResolved(c, resp)) =>
                /\ Shown("label")
                /\ Shown("results")'
                /\ result' = result
                /\ (ENABLED onLabelScan)'
      ]_vars
\* a label was stored and Results is shown again with the same roi_sha256
C25_Witness ==
    /\ alert.title = "Thanks!"
    /\ Shown("results")
    /\ labelSent # NoSubmission
    /\ labelSent.roi_sha256 = roiSha
    /\ ENABLED onLabelScan

\* C26: whenever the current screen is Results an AnalysisResult is held.
C26_ResultsNotEmpty == screen = "results" => result # NoResult

\* C27: whenever the current screen is Label, before and after every step, an
\* AnalysisResult with a non-empty roi_sha256 is held, and no step that leaves
\* the screen on Label changes the held result.
C27_LabelHasRoi ==
    [][ /\ screen = "label" => (result # NoResult /\ Truthy(result.roi_sha256))
        /\ screen' = "label" =>
              (result' # NoResult /\ Truthy(result'.roi_sha256))
        /\ (screen = "label" /\ screen' = "label") => result' = result
      ]_vars
\* Label is shown while an analyze call of the Review screen is still pending
C27_Witness ==
    /\ Shown("label")
    /\ analyzeCalls # EmptyBag
    /\ labelCalls # EmptyBag

\* C28: whenever the current screen is Review a photo reference is held, and
\* the screen becomes Review only in the step in which a capture completes
\* with a non-empty uri, which that step stores.
C28_ReviewHasPhoto ==
    [][ /\ screen = "review" => Truthy(photoUri)
        /\ screen' = "review" => Truthy(photoUri')
        /\ (screen # "review" /\ screen' = "review") =>
              \E c \in BagToSet(camCalls), uri \in PhotoUris :
                 /\ snapResolved(c, uri)
                 /\ photoUri' = uri
      ]_vars
\* Review is shown while an earlier capture, whose screen was left, is pending
C28_Witness ==
    /\ Shown("review")
    /\ Truthy(photoUri)
    /\ camCalls # EmptyBag
    /\ \A c \in BagToSet(camCalls) : ~c.live

\* C22: the request of every authenticated call (upsertConsent, analyze,
\* labelSample) carries X-Device-Token with the device token of its Auth, and
\* carries Authorization, as "Bearer <access token>", if and only if the
\* access token of its Auth is neither null nor empty.
C22_AuthHeaders ==
    request # NoRequest =>
       /\ request.url \in {"/v1/consent", "/v1/analyze", "/v1/label"}
       /\ "X-Device-Token" \in DOMAIN request.headers
       /\ request.headers["X-Device-Token"] = auth.deviceToken
       /\ "Authorization" \in DOMAIN request.headers <=>
             Truthy(auth.accessToken)
       /\ "Authorization" \in DOMAIN request.headers =>
             request.headers["Authorization"] = "Bearer " \o auth.accessToken
\* analyze was called with an empty access token: only X-Device-Token is sent
C22_Witness ==
    /\ request # NoRequest
    /\ request.url = "/v1/analyze"
    /\ auth.accessToken = ""
    /\ DOMAIN request.headers = {"X-Device-Token"}

=============================================================================
